---------------------------- MODULE Spec2Model ----------------------------
(***************************************************************************)
(* A model of util/multi_parameter_analysis_functions.py: the legacy       *)
(* module renaming of RenameUnpickler.find_class, the directory pipeline   *)
(* of multi_run_study_analysis_prepare (and its per-parameter variant) and *)
(* the summary statistics of get_scores.                                   *)
(*                                                                         *)
(* Three specifications share the variables below:                         *)
(*   Spec          the prepare pipeline over a directory of pickled runs   *)
(*   SpecScores    get_scores applied to one aggregated row                *)
(*   SpecUnpickle  RenameUnpickler.find_class applied to one (module,name) *)
(* A specification leaves the other two parts' variables at their idle     *)
(* values.                                                                 *)
(***************************************************************************)
EXTENDS Integers, Sequences, FiniteSets, TLC

VARIABLES
    \* ---- multi_run_study_analysis_prepare / _prepare_per_param ----
    entry,                 \* which of the two functions was called
    file_identifier,       \* argument: the identifier, a sequence of characters
    custom_threshold,      \* argument: the spike-and-slab threshold
    keep_results,          \* argument
    files,                 \* os.listdir(path): the names in listing order
    i,                     \* the loop counter: files[1..i] have been visited
    pc,                    \* the position in the function
    r,                     \* the run object being processed
    k,                     \* sub-results of r finalized so far
    results,               \* the results list
    all_study_params,      \* the concatenated table
    all_study_params_agg,  \* the aggregated table
    ret,                   \* what the call handed to its caller
    opened,                \* history: the names passed to open(), in order
    \* ---- get_scores ----
    agg_df,        \* the one-row table handed to get_scores (st: idle, input, scored)
    \* ---- RenameUnpickler.find_class ----
    module,        \* the module path recorded in the pickle stream
    name,          \* the class name recorded in the pickle stream
    resolved       \* <<module, name>> handed to Unpickler.find_class, <<>> before

pvars == <<entry, file_identifier, custom_threshold, keep_results, files, i, pc,
           r, k, results, all_study_params, all_study_params_agg, ret, opened>>

vars == <<pvars, agg_df, module, name, resolved>>

Idle == "idle"

\* The pipeline's variables when no prepare function is running.
PipelineIdle ==
    /\ entry = Idle
    /\ file_identifier = <<>>
    /\ custom_threshold = [k |-> "nan"]
    /\ keep_results = FALSE
    /\ files = <<>>
    /\ i = 0
    /\ pc = Idle
    /\ r = [src |-> <<>>]
    /\ k = 0
    /\ results = <<>>
    /\ all_study_params = <<>>
    /\ all_study_params_agg = {}
    /\ ret = [st |-> "none"]
    /\ opened = <<>>

(***************************************************************************)
(* Floating point values as the column arithmetic of get_scores produces   *)
(* them: a rational n/d in lowest terms (d > 0), NaN, +-inf, or n/sqrt(r)  *)
(* for the Matthews coefficient.  Rounding is not modelled.                *)
(***************************************************************************)
RECURSIVE GCD(_, _)
GCD(a, b) == IF b = 0 THEN a ELSE GCD(b, a % b)

Abs(x) == IF x < 0 THEN -x ELSE x

NaN == [k |-> "nan"]
Inf(s) == [k |-> "inf", s |-> s]

\* The rational n/d, d # 0, in lowest terms with a positive denominator.
Q(n, d) ==
    LET g == GCD(Abs(n), Abs(d))
        s == IF d < 0 THEN -1 ELSE 1
    IN  [k |-> "q", n |-> (s * n) \div g, d |-> (s * d) \div g]

Int2Val(x) == Q(x, 1)
IsNaN(v) == v.k = "nan"
IsZero(v) == v.k = "q" /\ v.n = 0
Sign(v) == IF v.k = "inf" THEN v.s
           ELSE IF v.n > 0 THEN 1 ELSE IF v.n < 0 THEN -1 ELSE 0

\* a + b on float64 columns
Add(a, b) ==
    IF IsNaN(a) \/ IsNaN(b) THEN NaN
    ELSE IF a.k = "inf" /\ b.k = "inf" THEN (IF a.s = b.s THEN a ELSE NaN)
    ELSE IF a.k = "inf" THEN a
    ELSE IF b.k = "inf" THEN b
    ELSE Q(a.n * b.d + b.n * a.d, a.d * b.d)

\* a * b on float64 columns
Mul(a, b) ==
    IF IsNaN(a) \/ IsNaN(b) THEN NaN
    ELSE IF a.k = "inf" \/ b.k = "inf"
         THEN (IF Sign(a) * Sign(b) = 0 THEN NaN ELSE Inf(Sign(a) * Sign(b)))
    ELSE Q(a.n * b.n, a.d * b.d)

\* np.sqrt of a non-negative integer-valued column entry: kept symbolic.
Sqrt(v) ==
    IF IsNaN(v) THEN NaN
    ELSE IF IsZero(v) THEN Int2Val(0)
    ELSE [k |-> "sqrt", r |-> v.n]

\* a / b on pandas columns: x/0 is +-inf, 0/0 is NaN, never an exception.
Div(a, b) ==
    IF IsNaN(a) \/ IsNaN(b) THEN NaN
    ELSE IF b.k = "sqrt" THEN [k |-> "qsqrt", n |-> a.n, d |-> a.d, r |-> b.r]
    ELSE IF a.k = "inf" /\ b.k = "inf" THEN NaN
    ELSE IF a.k = "inf" THEN (IF Sign(b) < 0 THEN Inf(-a.s) ELSE a)
    ELSE IF b.k = "inf" THEN Int2Val(0)
    ELSE IF b.n = 0 THEN (IF a.n = 0 THEN NaN ELSE Inf(Sign(a)))
    ELSE Q(a.n * b.d, a.d * b.n)

\* Series.fillna(x)
fillna(v, x) == IF IsNaN(v) THEN x ELSE v

(***************************************************************************)
(* get_scores (lines 107-132), column by column, on one row of the table.  *)
(* Every statement of get_scores is element-wise, so a table of several    *)
(* rows is this computation repeated on each of its rows.                  *)
(***************************************************************************)
MaxCount == 8
Counts == 0 .. MaxCount

\* line 118: tpr = (tp / (tp + fn)).fillna(0)
col_tpr(row) ==
    fillna(Div(Int2Val(row.tp), Int2Val(row.tp + row.fn)), Int2Val(0))

\* C7 mutant: the true negative rate taken over the predicted negatives.
col_tnr_mut(row) ==
    fillna(Div(Int2Val(row.tn), Int2Val(row.tn + row.fn)), Int2Val(0))

\* line 120: tnr = (tn / (tn + fp)).fillna(0)
col_tnr(row) ==
    fillna(Div(Int2Val(row.tn), Int2Val(row.tn + row.fp)), Int2Val(0))

\* line 122: precision = (tp / (tp + fp)).fillna(0)
col_precision(row) ==
    fillna(Div(Int2Val(row.tp), Int2Val(row.tp + row.fp)), Int2Val(0))

\* line 124: acc = (tp + tn) / (tp + tn + fp + fn).fillna(0)
\* The fillna is applied to the denominator, not to the quotient.
col_accuracy(row) ==
    Div(Int2Val(row.tp + row.tn),
        fillna(Int2Val(row.tp + row.tn + row.fp + row.fn), Int2Val(0)))

\* line 127: youden = tpr + tnr - 1
col_youden(row) == Add(Add(col_tpr(row), col_tnr(row)), Int2Val(-1))

\* line 128: f1_score = 2 * (tpr * precision / (tpr + precision)).fillna(0)
col_f1_score(row) ==
    Mul(Int2Val(2),
        fillna(Div(Mul(col_tpr(row), col_precision(row)),
                   Add(col_tpr(row), col_precision(row))), Int2Val(0)))

\* line 130: mcc = ((tp*tn - fp*fn) / sqrt((tp+fp)*(tp+fn)*(tn+fp)*(tn+fn))).fillna(0)
col_mcc(row) ==
    fillna(Div(Int2Val(row.tp * row.tn - row.fp * row.fn),
               Sqrt(Int2Val((row.tp + row.fp) * (row.tp + row.fn)
                            * (row.tn + row.fp) * (row.tn + row.fn)))),
           Int2Val(0))

\* get_scores: the input row with the seven statistics columns added.
get_scores(row) ==
    [tp |-> row.tp, tn |-> row.tn, fp |-> row.fp, fn |-> row.fn,
     st |-> "scored",
     tpr |-> col_tpr(row), tnr |-> col_tnr(row),
     precision |-> col_precision(row), accuracy |-> col_accuracy(row),
     youden |-> col_youden(row), f1_score |-> col_f1_score(row),
     mcc |-> col_mcc(row)]

InitScores ==
    /\ agg_df \in [tp : Counts, tn : Counts, fp : Counts, fn : Counts,
                   st : {"input"}]
    /\ PipelineIdle
    /\ module = Idle
    /\ name = Idle
    /\ resolved = <<>>

\* A call of get_scores on the table.
GetScores ==
    /\ agg_df.st = "input"
    /\ agg_df' = get_scores(agg_df)
    /\ UNCHANGED <<pvars, module, name, resolved>>

NextScores == GetScores

SpecScores == InitScores /\ [][NextScores]_vars

Scored == agg_df.st = "scored"

\* C1: get_scores never leaves an undefined value for a zero denominator:
\* tpr = 0 when tp+fn = 0, tnr = 0 when tn+fp = 0, precision = 0 when
\* tp+fp = 0, accuracy = 0 when tp+tn+fp+fn = 0, f1_score = 0 when
\* tpr+precision = 0, and mcc = 0 when any of tp+fp, tp+fn, tn+fp, tn+fn is 0.
C1_ZeroDenominatorsGiveZero ==
    Scored =>
        /\ (agg_df.tp + agg_df.fn = 0 => agg_df.tpr = Int2Val(0))
        /\ (agg_df.tn + agg_df.fp = 0 => agg_df.tnr = Int2Val(0))
        /\ (agg_df.tp + agg_df.fp = 0 => agg_df.precision = Int2Val(0))
        /\ (agg_df.tp + agg_df.tn + agg_df.fp + agg_df.fn = 0
               => agg_df.accuracy = Int2Val(0))
        /\ (IsZero(Add(agg_df.tpr, agg_df.precision))
               => agg_df.f1_score = Int2Val(0))
        /\ ((\/ agg_df.tp + agg_df.fp = 0 \/ agg_df.tp + agg_df.fn = 0
             \/ agg_df.tn + agg_df.fp = 0 \/ agg_df.tn + agg_df.fn = 0)
               => agg_df.mcc = Int2Val(0))

\* v is the rational n/d.
EqFrac(v, n, d) == v.k = "q" /\ v.n * d = n * v.d

\* The parts of C1 that the code does satisfy: all but the accuracy.
ZeroDenominatorsGiveZeroButAccuracy ==
    Scored =>
        /\ (agg_df.tp + agg_df.fn = 0 => agg_df.tpr = Int2Val(0))
        /\ (agg_df.tn + agg_df.fp = 0 => agg_df.tnr = Int2Val(0))
        /\ (agg_df.tp + agg_df.fp = 0 => agg_df.precision = Int2Val(0))
        /\ (agg_df.tp + agg_df.tn + agg_df.fp + agg_df.fn = 0
               => agg_df.accuracy = NaN)
        /\ (IsZero(Add(agg_df.tpr, agg_df.precision))
               => agg_df.f1_score = Int2Val(0))
        /\ ((\/ agg_df.tp + agg_df.fp = 0 \/ agg_df.tp + agg_df.fn = 0
             \/ agg_df.tn + agg_df.fp = 0 \/ agg_df.tn + agg_df.fn = 0)
               => agg_df.mcc = Int2Val(0))

\* C7: with non-zero denominators, tpr = tp/(tp+fn), tnr = tn/(tn+fp),
\* precision = tp/(tp+fp), accuracy = (tp+tn)/(tp+tn+fp+fn) and
\* youden = tpr+tnr-1; tp=8, fn=2, tn=7, fp=3 gives 4/5, 7/10, 8/11, 3/4, 1/2.
\* Equalities of rationals are stated by cross-multiplication (EqFrac).
C7_RatesAreTheQuotients ==
    Scored =>
        LET tp == agg_df.tp  tn == agg_df.tn  fp == agg_df.fp  fn == agg_df.fn
        IN  /\ (tp + fn # 0 /\ tn + fp # 0 /\ tp + fp # 0) =>
                 /\ EqFrac(agg_df.tpr, tp, tp + fn)
                 /\ EqFrac(agg_df.tnr, tn, tn + fp)
                 /\ EqFrac(agg_df.precision, tp, tp + fp)
                 /\ EqFrac(agg_df.accuracy, tp + tn, tp + tn + fp + fn)
                 /\ EqFrac(agg_df.youden,
                           tp * (tn + fp) + tn * (tp + fn) - (tp + fn) * (tn + fp),
                           (tp + fn) * (tn + fp))
            /\ (tp = 8 /\ fn = 2 /\ tn = 7 /\ fp = 3) =>
                 /\ agg_df.tpr = [k |-> "q", n |-> 4, d |-> 5]
                 /\ agg_df.tnr = [k |-> "q", n |-> 7, d |-> 10]
                 /\ agg_df.precision = [k |-> "q", n |-> 8, d |-> 11]
                 /\ agg_df.accuracy = [k |-> "q", n |-> 3, d |-> 4]
                 /\ agg_df.youden = [k |-> "q", n |-> 1, d |-> 2]

\* C7 witness: the example row has been scored.
C7_Witness ==
    /\ Scored
    /\ agg_df.tp = 8 /\ agg_df.fn = 2 /\ agg_df.tn = 7 /\ agg_df.fp = 3

(***************************************************************************)
(* RenameUnpickler.find_class (lines 24-36).                               *)
(***************************************************************************)
\* Module paths a pickle stream may record: the eight legacy spellings, the
\* four canonical locations and paths that only resemble a legacy one.
Modules ==
    {"multi_parameter_sampling", "model.multi_parameter_sampling",
     "compositional_analysis_generation_toolbox",
     "model.compositional_analysis_generation_toolbox",
     "result_classes", "model.result_classes",
     "final_models", "model.final_models",
     "util.multi_parameter_sampling",
     "util.compositional_analysis_generation_toolbox",
     "util.result_classes", "model.dirichlet_models",
     "util.final_models", "models.final_models", "model.model.result_classes",
     "Result_classes", "numpy.core.multiarray", "pandas.core.frame",
     "builtins", "model"}

ClassNames ==
    {"Multi_param_simulation", "MCMCResult", "CompAnaResult",
     "NoBaselineModel", "DataFrame", "_reconstruct"}

\* C10 mutant: the "model."-prefixed spelling of result_classes is forgotten.
renamed_module_mut(m) ==
    LET r0 == m
        r1 == IF m = "multi_parameter_sampling" \/ m = "model.multi_parameter_sampling"
              THEN "util.multi_parameter_sampling" ELSE r0
        r2 == IF m = "compositional_analysis_generation_toolbox"
                 \/ m = "model.compositional_analysis_generation_toolbox"
              THEN "util.compositional_analysis_generation_toolbox" ELSE r1
        r3 == IF m = "result_classes"
              THEN "util.result_classes" ELSE r2
        r4 == IF m = "final_models" \/ m = "model.final_models"
              THEN "model.dirichlet_models" ELSE r3
    IN  r4

\* lines 26-34: renamed_module after the four if statements, each of which
\* tests the recorded module and overwrites renamed_module.
renamed_module(m) ==
    LET r0 == m
        r1 == IF m = "multi_parameter_sampling" \/ m = "model.multi_parameter_sampling"
              THEN "util.multi_parameter_sampling" ELSE r0
        r2 == IF m = "compositional_analysis_generation_toolbox"
                 \/ m = "model.compositional_analysis_generation_toolbox"
              THEN "util.compositional_analysis_generation_toolbox" ELSE r1
        r3 == IF m = "result_classes" \/ m = "model.result_classes"
              THEN "util.result_classes" ELSE r2
        r4 == IF m = "final_models" \/ m = "model.final_models"
              THEN "model.dirichlet_models" ELSE r3
    IN  r4

InitUnpickle ==
    /\ module \in Modules
    /\ name \in ClassNames
    /\ resolved = <<>>
    /\ agg_df = [st |-> "idle"]
    /\ PipelineIdle

\* line 36: super().find_class(renamed_module, name)
FindClass ==
    /\ module # Idle
    /\ resolved = <<>>
    /\ resolved' = <<renamed_module(module), name>>
    /\ UNCHANGED <<pvars, agg_df, module, name>>

NextUnpickle == FindClass

SpecUnpickle == InitUnpickle /\ [][NextUnpickle]_vars

\* The legacy module names and the canonical location of each.
LegacyNames ==
    {"multi_parameter_sampling", "compositional_analysis_generation_toolbox",
     "result_classes", "final_models"}
Canonical(l) ==
    CASE l = "multi_parameter_sampling" -> "util.multi_parameter_sampling"
      [] l = "compositional_analysis_generation_toolbox"
             -> "util.compositional_analysis_generation_toolbox"
      [] l = "result_classes" -> "util.result_classes"
      [] l = "final_models" -> "model.dirichlet_models"
IsSpellingOf(m, l) == m = l \/ m = "model." \o l

\* C10: before class resolution the recorded module path is rewritten for
\* exactly the four legacy modules, bare or prefixed with "model.", each to
\* its one canonical location; every other module path is passed through
\* unchanged; the class name is never altered.
C10_LegacyModulesRenamed ==
    resolved # <<>> =>
        /\ resolved[2] = name
        /\ \A l \in LegacyNames :
               IsSpellingOf(module, l) => resolved[1] = Canonical(l)
        /\ (\A l \in LegacyNames : ~IsSpellingOf(module, l))
               => resolved[1] = module

\* C10 witness: a "model."-prefixed legacy path has been resolved.
C10_Witness ==
    /\ resolved # <<>>
    /\ module = "model.result_classes"
    /\ resolved[1] = "util.result_classes"

(***************************************************************************)
(* The prepare pipeline: multi_run_study_analysis_prepare (lines 50-104)   *)
(* and multi_run_study_analysis_prepare_per_param (lines 236-286), which   *)
(* differ only in the discovery-rate method they invoke.                   *)
(*                                                                         *)
(* A run object (what a pickled file holds) is a record                    *)
(*   src          history: the file it was loaded from                     *)
(*   parameters   the parameters table, a sequence of rows                 *)
(*   mcmc_results the sub-results, keyed 1..n in dictionary order          *)
(*   attr_raw     the attribute _MCMCResult__raw_params of the run object  *)
(*                itself: "unset" until line 93 assigns {} to it           *)
(* and a sub-result is a record                                            *)
(*   params       its params table, one row per coefficient                *)
(*   raw_params   its raw MCMC payload: "chains", or "{}" once discarded   *)
(***************************************************************************)

\* ---- values of the tables ----------------------------------------------
Absent == [k |-> "absent"]       \* a column the table does not have (yet)

\* a > b on float64 columns: False when either side is NaN.
Gt(a, b) == a.k = "q" /\ b.k = "q" /\ a.n * b.d > b.n * a.d

\* A Python number of a vector-valued parameter: v its (integral) value,
\* f whether it is a float.
PyInt(v) == [v |-> v, f |-> FALSE]
PyFloat(v) == [v |-> v, f |-> TRUE]

\* str(x) of a Python int or float: 1 -> "1", 1.0 -> "1.0".
str_num(e) == IF e.f THEN ToString(e.v) \o ".0" ELSE ToString(e.v)

RECURSIVE str_join(_)
str_join(l) ==
    IF l = <<>> THEN ""
    ELSE IF Len(l) = 1 THEN str_num(l[1])
    ELSE str_num(l[1]) \o ", " \o str_join(Tail(l))

\* str(x) of a Python list of numbers: [1, 0] -> "[1, 0]".
str_list(l) == "[" \o str_join(l) \o "]"

\* ---- what the directory may hold ---------------------------------------
\* The coefficient rows of a params table: mean, mean_nonzero and
\* inclusion_prob as the sampler wrote them; final_parameter is added by the
\* pipeline.
Coef(mean, mean_nonzero, inclusion_prob) ==
    [mean |-> mean, mean_nonzero |-> mean_nonzero,
     inclusion_prob |-> inclusion_prob, final_parameter |-> Absent]

SubResult(params) == [params |-> params, raw_params |-> "chains"]

\* One row of a parameters table; the discovery-rate columns are added by
\* the run's discovery-rate method.
ParamRow(n_samples, w_true) ==
    [cases |-> 1, K |-> 2, n_total |-> 1000, n_samples |-> n_samples,
     b_true |-> <<PyFloat(1), PyFloat(1)>>, w_true |-> w_true,
     num_results |-> 2000, counts |-> <<>>]

\* Two sub-runs; integer-typed effects; the inclusion probabilities include
\* one that equals the threshold 1/2.
RunA ==
    [parameters |->
        <<ParamRow(<<PyInt(1), PyInt(1)>>, <<PyInt(1), PyInt(0)>>),
          ParamRow(<<PyInt(1), PyInt(2)>>, <<PyInt(1), PyInt(0)>>)>>,
     mcmc_results |->
        <<SubResult(<<Coef(Int2Val(2), Int2Val(3), Q(9, 10)),
                      Coef(Int2Val(1), NaN, Q(2, 10))>>),
          SubResult(<<Coef(Int2Val(1), Int2Val(2), Q(1, 2)),
                      Coef(Int2Val(-1), Int2Val(4), Q(6, 10))>>)>>]

\* One sub-run whose effects are value-equal to RunA's first row but typed
\* as floats; an inclusion probability equal to the threshold 7/10.
RunB ==
    [parameters |->
        <<ParamRow(<<PyInt(1), PyInt(1)>>, <<PyFloat(1), PyFloat(0)>>)>>,
     mcmc_results |->
        <<SubResult(<<Coef(Int2Val(1), Int2Val(2), Q(7, 10)),
                      Coef(Int2Val(3), NaN, Q(9, 10))>>)>>]

\* Two sub-runs with the same parameters as RunA's first row.
RunC ==
    [parameters |->
        <<ParamRow(<<PyInt(1), PyInt(1)>>, <<PyInt(1), PyInt(0)>>),
          ParamRow(<<PyInt(1), PyInt(1)>>, <<PyInt(1), PyInt(0)>>)>>,
     mcmc_results |->
        <<SubResult(<<Coef(Int2Val(0), Int2Val(0), Q(3, 10)),
                      Coef(Int2Val(0), Int2Val(5), Q(8, 10))>>),
          SubResult(<<Coef(Int2Val(2), NaN, NaN),
                      Coef(Int2Val(0), Int2Val(4), NaN)>>)>>]

Corrupt == [corrupt |-> TRUE]

\* The files that may be in the directory: name (a sequence of characters)
\* and pickled content.
Disk ==
    (<<"r", "_", "a">> :> RunA) @@
    (<<"a", "r", "_">> :> RunB) @@
    (<<"r", "_", "b">> :> RunC) @@
    (<<"r", "_", "c">> :> Corrupt) @@
    (<<"r", "a", "_">> :> RunA) @@
    (<<"_", "r">> :> Corrupt)

FileNames == DOMAIN Disk
Identifiers == {<<"r", "_">>, <<"a">>, <<>>}
Thresholds == {Q(1, 2), Q(7, 10)}
Entries == {"prepare", "per_param"}

\* The longest directory listing.
MaxFiles == 3

\* The directory listings: sequences of distinct file names.
Listings ==
    UNION {{l \in [1 .. n -> FileNames] :
               \A a, b \in 1 .. n : a # b => l[a] # l[b]} : n \in 0 .. MaxFiles}

\* ---- the steps of the loop body ----------------------------------------
\* C6 mutant: the identifier is looked for at the start of the name only.
name_contains_mut(ident, f) ==
    Len(ident) <= Len(f) /\ SubSeq(f, 1, Len(ident)) = ident

\* line 75: file_identifier in f
name_contains(ident, f) ==
    \E a \in 0 .. Len(f) - Len(ident) : SubSeq(f, a + 1, a + Len(ident)) = ident

\* line 77: renamed_load(open(path + "/" + f, "rb")) on a file that unpickles
load(f) ==
    [src |-> f, parameters |-> Disk[f].parameters,
     mcmc_results |-> Disk[f].mcmc_results, attr_raw |-> "unset"]

\* line 77 raises when the stream is corrupt
load_fails(f) == Disk[f] = Corrupt

\* C8 mutant: a file that does not load is skipped and the loop goes on.
after_load_failure_mut == "loop"

\* No try/except encloses line 77: the exception leaves the function.
after_load_failure == "raised_load"

\* C2 mutant: the threshold test is >= instead of >.
final_parameter_mut(c, threshold) ==
    IF IsNaN(c.mean_nonzero) THEN c.mean
    ELSE IF Gt(c.inclusion_prob, threshold) \/ c.inclusion_prob = threshold
         THEN c.mean_nonzero
    ELSE Int2Val(0)

\* lines 81-85: np.where(isnan(mean_nonzero), mean,
\*                       np.where(inclusion_prob > threshold, mean_nonzero, 0))
final_parameter(c, threshold) ==
    IF IsNaN(c.mean_nonzero) THEN c.mean
    ELSE IF Gt(c.inclusion_prob, threshold) THEN c.mean_nonzero
    ELSE Int2Val(0)

\* C12 mutant: the column is assigned to a copy of the params table, so the
\* sub-result of the run is left without it.
finalize_mut(sub, threshold) == sub

\* lines 80-85, one pass of the loop: the params table of one sub-result
\* with the final_parameter column set.
finalize(sub, threshold) ==
    [sub EXCEPT !.params =
        [j \in DOMAIN sub.params |->
            [sub.params[j] EXCEPT
                !.final_parameter = final_parameter(sub.params[j], threshold)]]]

\* The run's discovery-rate methods are the sampler's, not this file's: each
\* coefficient counts as discovered when its final_parameter is not 0, and is
\* compared with the ground truth w_true of the sub-run's parameter row.
Discovered(c) == ~IsZero(c.final_parameter)
TrueEffect(e) == e.v # 0
CountOf(S) == Cardinality(S)

\* get_discovery_rates(): the columns tp, tn, fp, fn of one parameter row.
discovery_counts(row, sub) ==
    LET J == DOMAIN sub.params
    IN  [c \in {"tp", "tn", "fp", "fn"} |->
           CASE c = "tp" -> CountOf({j \in J : Discovered(sub.params[j]) /\ TrueEffect(row.w_true[j])})
             [] c = "fp" -> CountOf({j \in J : Discovered(sub.params[j]) /\ ~TrueEffect(row.w_true[j])})
             [] c = "tn" -> CountOf({j \in J : ~Discovered(sub.params[j]) /\ ~TrueEffect(row.w_true[j])})
             [] c = "fn" -> CountOf({j \in J : ~Discovered(sub.params[j]) /\ TrueEffect(row.w_true[j])})]

\* get_discovery_rates_per_param(): the columns correct_j and false_j
\* (j from 0) of one parameter row.
discovery_counts_per_param(row, sub) ==
    LET J == DOMAIN sub.params
        col(kind, j) == kind \o ToString(j - 1)
        ok(j) == Discovered(sub.params[j]) = TrueEffect(row.w_true[j])
    IN  [c \in {col("correct_", j) : j \in J} \cup {col("false_", j) : j \in J} |->
           IF \E j \in J : c = col("correct_", j) /\ ok(j) THEN 1
           ELSE IF \E j \in J : c = col("false_", j) /\ ~ok(j) THEN 1
           ELSE 0]

\* lines 87 / 270: the parameters table with the discovery-rate columns.
get_discovery_rates(run, which) ==
    [run EXCEPT !.parameters =
        [n \in DOMAIN run.parameters |->
            [run.parameters[n] EXCEPT !.counts =
                IF which = "per_param"
                THEN discovery_counts_per_param(run.parameters[n], run.mcmc_results[n])
                ELSE discovery_counts(run.parameters[n], run.mcmc_results[n])]]]

\* line 93: r._MCMCResult__raw_params = {} assigns the attribute of the run
\* object r; the sub-results in r.mcmc_results are not touched.
discard_raw_params(run) == [run EXCEPT !.attr_raw = "{}"]

\* ---- after the loop ------------------------------------------------------
RECURSIVE concat(_)
\* line 97: pd.concat([r.parameters for r in results]), the rows in order
concat(rs) ==
    IF rs = <<>> THEN <<>> ELSE rs[1].parameters \o concat(Tail(rs))

\* C9 mutant: concatenating nothing gives an empty table.
concat_fails_mut(rs) == FALSE

\* line 97: pd.concat raises ValueError on an empty list of tables
concat_fails(rs) == rs = <<>>

\* line 99: the seven simulation parameter columns .astype(str)
astype_str(row) ==
    [cases |-> ToString(row.cases), K |-> ToString(row.K),
     n_total |-> ToString(row.n_total), n_samples |-> str_list(row.n_samples),
     b_true |-> str_list(row.b_true), w_true |-> str_list(row.w_true),
     num_results |-> ToString(row.num_results), counts |-> row.counts]

\* line 98: simulation_parameters, the grouping key of a stringified row
group_key(row) ==
    <<row.cases, row.K, row.n_total, row.n_samples, row.b_true, row.w_true,
      row.num_results>>

RECURSIVE sum_counts(_)
\* the column-wise sum of the count columns of a non-empty sequence of rows
sum_counts(rows) ==
    IF Len(rows) = 1 THEN rows[1].counts
    ELSE LET rest == sum_counts(Tail(rows))
         IN  [c \in DOMAIN rest |-> rows[1].counts[c] + rest[c]]

\* C4 mutant: the groups are averaged (rounding down) instead of summed.
groupby_sum_mut(rows) ==
    {[key |-> key,
      counts |-> LET grp == SelectSeq(rows, LAMBDA x : group_key(x) = key)
                     tot == sum_counts(grp)
                 IN  [c \in DOMAIN tot |-> tot[c] \div Len(grp)]] :
        key \in {group_key(rows[n]) : n \in DOMAIN rows}}

\* line 102 (and reset_index, line 104): one row per distinct key, holding
\* the key and the sums of the count columns.  The table is kept as a set:
\* the order of its rows is not modelled.
groupby_sum(rows) ==
    {[key |-> key,
      counts |-> sum_counts(SelectSeq(rows, LAMBDA x : group_key(x) = key))] :
        key \in {group_key(rows[n]) : n \in DOMAIN rows}}

\* ---- the specification ---------------------------------------------------
Init ==
    /\ entry \in Entries
    /\ file_identifier \in Identifiers
    /\ custom_threshold \in Thresholds
    /\ keep_results \in BOOLEAN
    /\ files \in Listings
    /\ i = 0
    /\ pc = "loop"
    /\ r = [src |-> <<>>]
    /\ k = 0
    /\ results = <<>>
    /\ all_study_params = <<>>
    /\ all_study_params_agg = {}
    /\ ret = [st |-> "none"]
    /\ opened = <<>>
    /\ agg_df = [st |-> "idle"]
    /\ module = Idle
    /\ name = Idle
    /\ resolved = <<>>

others == <<agg_df, module, name, resolved>>
args == <<entry, file_identifier, custom_threshold, keep_results, files>>

\* lines 71-75: the next entry does not contain the identifier
SkipFile ==
    /\ pc = "loop" /\ i < Len(files)
    /\ ~name_contains(file_identifier, files[i + 1])
    /\ i' = i + 1
    /\ UNCHANGED <<args, pc, r, k, results, all_study_params,
                   all_study_params_agg, ret, opened, others>>

\* lines 71-77: the next entry contains the identifier and unpickles
LoadFile ==
    /\ pc = "loop" /\ i < Len(files)
    /\ name_contains(file_identifier, files[i + 1])
    /\ ~load_fails(files[i + 1])
    /\ i' = i + 1
    /\ opened' = Append(opened, files[i + 1])
    /\ r' = load(files[i + 1])
    /\ k' = 0
    /\ pc' = "finalize"
    /\ UNCHANGED <<args, results, all_study_params, all_study_params_agg,
                   ret, others>>

\* lines 71-77: the next entry contains the identifier and does not unpickle
LoadFileFails ==
    /\ pc = "loop" /\ i < Len(files)
    /\ name_contains(file_identifier, files[i + 1])
    /\ load_fails(files[i + 1])
    /\ i' = i + 1
    /\ opened' = Append(opened, files[i + 1])
    /\ pc' = after_load_failure
    /\ UNCHANGED <<args, r, k, results, all_study_params,
                   all_study_params_agg, ret, others>>

\* lines 80-85: one pass of the loop over r.mcmc_results
FinalizeSubResult ==
    /\ pc = "finalize" /\ k < Len(r.mcmc_results)
    /\ r' = [r EXCEPT !.mcmc_results[k + 1] =
                          finalize(r.mcmc_results[k + 1], custom_threshold)]
    /\ k' = k + 1
    /\ UNCHANGED <<args, i, pc, results, all_study_params,
                   all_study_params_agg, ret, opened, others>>

\* lines 87 / 270: the loop over the sub-results is over
DiscoveryRates ==
    /\ pc = "finalize" /\ k = Len(r.mcmc_results)
    /\ r' = get_discovery_rates(r, entry)
    /\ pc' = "append"
    /\ UNCHANGED <<args, i, k, results, all_study_params,
                   all_study_params_agg, ret, opened, others>>

\* lines 90-91
AppendKept ==
    /\ pc = "append" /\ keep_results
    /\ results' = Append(results, r)
    /\ pc' = "loop"
    /\ UNCHANGED <<args, i, r, k, all_study_params, all_study_params_agg,
                   ret, opened, others>>

\* lines 92-94
AppendDiscarded ==
    /\ pc = "append" /\ ~keep_results
    /\ r' = discard_raw_params(r)
    /\ results' = Append(results, r')
    /\ pc' = "loop"
    /\ UNCHANGED <<args, i, k, all_study_params, all_study_params_agg,
                   ret, opened, others>>

\* line 97 on a list with no table
ConcatFails ==
    /\ pc = "loop" /\ i = Len(files)
    /\ concat_fails(results)
    /\ pc' = "raised_concat"
    /\ UNCHANGED <<args, i, r, k, results, all_study_params,
                   all_study_params_agg, ret, opened, others>>

\* line 97
Concat ==
    /\ pc = "loop" /\ i = Len(files)
    /\ ~concat_fails(results)
    /\ all_study_params' = concat(results)
    /\ pc' = "astype"
    /\ UNCHANGED <<args, i, r, k, results, all_study_params_agg, ret,
                   opened, others>>

\* lines 98-99
Stringify ==
    /\ pc = "astype"
    /\ all_study_params' =
           [n \in DOMAIN all_study_params |-> astype_str(all_study_params[n])]
    /\ pc' = "groupby"
    /\ UNCHANGED <<args, i, r, k, results, all_study_params_agg, ret,
                   opened, others>>

\* line 102
GroupBy ==
    /\ pc = "groupby"
    /\ all_study_params_agg' = groupby_sum(all_study_params)
    /\ pc' = "return"
    /\ UNCHANGED <<args, i, r, k, results, all_study_params, ret, opened,
                   others>>

\* line 104
Return ==
    /\ pc = "return"
    /\ ret' = [st |-> "value", results |-> results,
               all_study_params |-> all_study_params,
               all_study_params_agg |-> all_study_params_agg]
    /\ pc' = "returned"
    /\ UNCHANGED <<args, i, r, k, results, all_study_params,
                   all_study_params_agg, opened, others>>

Next ==
    \/ SkipFile \/ LoadFile \/ LoadFileFails
    \/ FinalizeSubResult \/ DiscoveryRates
    \/ AppendKept \/ AppendDiscarded
    \/ ConcatFails \/ Concat \/ Stringify \/ GroupBy \/ Return

Spec == Init /\ [][Next]_vars

(***************************************************************************)
(* Properties of the pipeline.                                             *)
(***************************************************************************)
Returned == ret.st = "value"

\* n occurs in h as a block of consecutive characters.
IsSubstring(n, h) ==
    \E a, b \in 0 .. Len(h) : a <= b /\ SubSeq(h, a + 1, b) = n

\* The entries of a listing whose name contains the identifier, in order.
Matching(l) == SelectSeq(l, LAMBDA f : IsSubstring(file_identifier, f))

\* The sub-results of a run.
SubResultsOf(run) == {run.mcmc_results[m] : m \in DOMAIN run.mcmc_results}

\* The sub-results whose final_parameter column has been set: those of every
\* collected run, and of the run in hand the ones the loop has passed.
FinalizedSubResults ==
    UNION {SubResultsOf(results[n]) : n \in DOMAIN results}
    \cup (IF pc \in {"finalize", "append"}
          THEN {r.mcmc_results[m] : m \in 1 .. k} ELSE {})

\* The coefficient rows of the finalized sub-results.
FinalizedCoefs ==
    UNION {{sub.params[j] : j \in DOMAIN sub.params} : sub \in FinalizedSubResults}

Defined(v) == v.k # "nan"
StrictlyAbove(a, b) == Defined(a) /\ Defined(b) /\ a.n * b.d > b.n * a.d

C3_RawPayloadDiscarded ==
    /\ (Returned /\ ~keep_results) =>
           \A n \in DOMAIN ret.results :
               \A sub \in SubResultsOf(ret.results[n]) : sub.raw_params = "{}"
    /\ (Returned /\ keep_results) =>
           \A n \in DOMAIN ret.results :
               /\ ret.results[n].attr_raw = "unset"
               /\ \A sub \in SubResultsOf(ret.results[n]) : sub.raw_params = "chains"
    /\ pc = "finalize" =>
           /\ r.attr_raw = "unset"
           /\ \A sub \in SubResultsOf(r) : sub.raw_params = "chains"

\* What the code does do for C3: line 93 sets the attribute on the run
\* object, after the discovery rates, and every sub-result keeps its payload.
RawPayloadOfSubResultsKept ==
    /\ \A n \in DOMAIN results :
           /\ results[n].attr_raw = (IF keep_results THEN "unset" ELSE "{}")
           /\ \A sub \in SubResultsOf(results[n]) : sub.raw_params = "chains"
    /\ pc \in {"finalize", "append"} =>
           /\ r.attr_raw = "unset"
           /\ \A sub \in SubResultsOf(r) : sub.raw_params = "chains"

\* The aggregated table the prepare function builds from the runs of
\* `results` with indices in S (lines 97-102 on those runs alone).
AggregateOf(S) ==
    LET part == [n \in DOMAIN results |->
                    IF n \in S THEN results[n] ELSE [parameters |-> <<>>]]
        rows == concat(part)
    IN  groupby_sum([n \in DOMAIN rows |-> astype_str(rows[n])])

\* Two aggregated tables combined: rows with the same key have their count
\* columns summed, the other rows are kept.
SumMatching(a, b) ==
    LET keys(t) == {g.key : g \in t}
        row(t, key) == CHOOSE g \in t : g.key = key
    IN  {[key |-> key,
          counts |->
             IF key \in keys(a) /\ key \in keys(b)
             THEN [c \in DOMAIN row(a, key).counts |->
                      row(a, key).counts[c] + row(b, key).counts[c]]
             ELSE IF key \in keys(a) THEN row(a, key).counts
             ELSE row(b, key).counts] :
            key \in keys(a) \cup keys(b)}

\* C4: aggregation is associative over file sets: splitting the loaded runs
\* into two (non-empty) sets, aggregating each set separately and summing the
\* count columns of rows with the same stringified parameter tuple gives the
\* aggregated table of the one pass over all of them.
C4_AggregationAssociative ==
    Returned =>
        \A S \in SUBSET DOMAIN results :
            (S # {} /\ S # DOMAIN results) =>
                SumMatching(AggregateOf(S), AggregateOf(DOMAIN results \ S))
                    = ret.all_study_params_agg

\* C4 witness: three runs were aggregated into more than one group, and two
\* of the runs have rows in the same group.
C4_Witness ==
    /\ Returned
    /\ Len(results) = 3
    /\ Cardinality(ret.all_study_params_agg) > 1
    /\ \E g \in AggregateOf({1}), h \in AggregateOf({2, 3}) : g.key = h.key

\* All parameter rows of the collected runs, as <<run, row>> index pairs.
RowIds ==
    UNION {{<<n, m>> : m \in DOMAIN results[n].parameters} : n \in DOMAIN results}
RowAt(id) == results[id[1]].parameters[id[2]]

\* Element-wise equality of two vectors of numbers: 1 equals 1.0.
VectorEq(u, w) == Len(u) = Len(w) /\ \A j \in DOMAIN u : u[j].v = w[j].v

\* Value equality of the seven simulation parameters of two rows.
ValueEqual(p, q) ==
    /\ p.cases = q.cases /\ p.K = q.K /\ p.n_total = q.n_total
    /\ p.num_results = q.num_results
    /\ VectorEq(p.n_samples, q.n_samples)
    /\ VectorEq(p.b_true, q.b_true)
    /\ VectorEq(p.w_true, q.w_true)

RECURSIVE SumOver(_)
\* The column-wise sum of the counts of a non-empty set of rows.
SumOver(ids) ==
    LET id == CHOOSE x \in ids : TRUE
    IN  IF ids = {id} THEN RowAt(id).counts
        ELSE LET rest == SumOver(ids \ {id})
             IN  [c \in DOMAIN rest |-> RowAt(id).counts[c] + rest[c]]

\* C5: any two parameter rows whose seven simulation parameters are
\* value-equal (element-wise for the vector-valued ones) land in the same row
\* of the aggregated table, whose count columns are the sum over all such rows.
C5_ValueEqualRowsShareAGroup ==
    Returned =>
        \A id \in RowIds :
            LET same == {x \in RowIds : ValueEqual(RowAt(x), RowAt(id))}
            IN  \E g \in ret.all_study_params_agg :
                    /\ \A x \in same : group_key(astype_str(RowAt(x))) = g.key
                    /\ g.counts = SumOver(same)

\* What the code does do for C5: rows are grouped by the text of their
\* parameters, so rows that print alike share a row holding their sum.
RowsPrintingAlikeShareAGroup ==
    Returned =>
        \A id \in RowIds :
            LET same == {x \in RowIds :
                            astype_str(RowAt(x)).w_true = astype_str(RowAt(id)).w_true
                            /\ ValueEqual(RowAt(x), RowAt(id))}
            IN  \E g \in ret.all_study_params_agg :
                    /\ \A x \in same : group_key(astype_str(RowAt(x))) = g.key
                    /\ g.counts = SumOver(same)

\* C6: exactly the directory entries whose name contains file_identifier as
\* a substring are loaded: no other entry is ever opened, the entries opened
\* so far are the matching ones among those visited, and the returned
\* results list holds one run per matching entry in directory-listing order.
C6_ExactlyMatchingFilesLoaded ==
    /\ \A n \in DOMAIN opened : IsSubstring(file_identifier, opened[n])
    /\ opened = Matching(SubSeq(files, 1, i))
    /\ Returned =>
           /\ Len(ret.results) = Len(Matching(files))
           /\ \A n \in DOMAIN ret.results : ret.results[n].src = Matching(files)[n]

\* C6 witness: a call returned after loading a file that holds the identifier
\* in the middle of its name and skipping a file that lacks it.
C6_Witness ==
    /\ Returned
    /\ Len(files) = 3
    /\ Len(ret.results) = 2
    /\ \E n \in DOMAIN ret.results :
           /\ IsSubstring(file_identifier, ret.results[n].src)
           /\ SubSeq(ret.results[n].src, 1, Len(file_identifier)) # file_identifier
    /\ \E n \in DOMAIN files : ~IsSubstring(file_identifier, files[n])

\* The matching entries of the listing that do not unpickle.
BadEntries ==
    {n \in DOMAIN files :
        IsSubstring(file_identifier, files[n]) /\ Disk[files[n]] = Corrupt}

\* C8: a matching file that fails to load aborts the whole batch: the failure
\* leaves the function at that file, no later file is visited or loaded, and
\* nothing is returned, whatever was processed before.
C8_LoadFailureAbortsBatch ==
    \A n \in BadEntries :
        /\ ret.st = "none"
        /\ pc \notin {"astype", "groupby", "return", "returned", "raised_concat"}
        /\ i <= n
        /\ (i = n => pc = "raised_load")
        /\ \A m \in DOMAIN opened : \E j \in 1 .. n : opened[m] = files[j]

\* C8 witness: the load failed after a run had been collected and with an
\* entry still to come.
C8_Witness ==
    /\ pc = "raised_load"
    /\ results # <<>>
    /\ i < Len(files)
    /\ IsSubstring(file_identifier, files[i + 1])
    /\ ret.st = "none"

\* C9: when no directory entry's name contains file_identifier (an empty
\* directory included), the call ends in the concatenation failure and
\* returns nothing: no run is loaded, and once the listing is exhausted the
\* only step is the failing pd.concat.
C9_NoMatchEndsInConcatFailure ==
    (\A n \in DOMAIN files : ~IsSubstring(file_identifier, files[n])) =>
        /\ ret.st = "none"
        /\ results = <<>> /\ opened = <<>>
        /\ pc \in {"loop", "raised_concat"}
        /\ (pc = "loop" /\ i = Len(files)) =>
               (ENABLED ConcatFails /\ ~ENABLED Concat)

\* C9 witness: a directory with entries, none matching, ended in the
\* concatenation failure.
C9_Witness ==
    /\ pc = "raised_concat"
    /\ Len(files) > 0
    /\ i = Len(files)
    /\ \A n \in DOMAIN files : ~IsSubstring(file_identifier, files[n])

(***************************************************************************)
(* multi_run_study_analysis_multi_model_prepare (lines 359-414).           *)
(*                                                                         *)
(* A multi-model run object holds, instead of mcmc_results, the attribute  *)
(*   results   a mapping condition -> (sub-run -> sub-result), here a      *)
(*             sequence of sequences in dictionary order                   *)
(* and the params table of a sub-result may lack the mean_nonzero column   *)
(* (a model with no spike-and-slab prior): its rows then hold Absent for   *)
(* mean_nonzero and inclusion_prob.                                        *)
(***************************************************************************)
\* A coefficient row of a params table without the mean_nonzero column;
\* final is its final_parameter as the sampler wrote it, or Absent.
CoefPlain(mean, final) ==
    [mean |-> mean, mean_nonzero |-> Absent, inclusion_prob |-> Absent,
     final_parameter |-> final]

\* One sub-run under two conditions: a spike-and-slab model, and a model
\* whose params table has neither mean_nonzero nor final_parameter.
MultiA ==
    [parameters |->
        <<ParamRow(<<PyInt(1), PyInt(1)>>, <<PyInt(1), PyInt(0)>>)>>,
     results |->
        <<<<SubResult(<<Coef(Int2Val(2), Int2Val(3), Q(9, 10)),
                        Coef(Int2Val(1), NaN, Q(2, 10))>>)>>,
          <<SubResult(<<CoefPlain(Int2Val(2), Absent),
                        CoefPlain(Int2Val(0), Absent)>>)>>>>]

\* Two sub-runs under two conditions, every model with spike and slab; the
\* inclusion probabilities include both thresholds.
MultiB ==
    [parameters |->
        <<ParamRow(<<PyInt(1), PyInt(1)>>, <<PyInt(1), PyInt(0)>>),
          ParamRow(<<PyInt(1), PyInt(2)>>, <<PyInt(0), PyInt(1)>>)>>,
     results |->
        <<<<SubResult(<<Coef(Int2Val(1), Int2Val(2), Q(1, 2)),
                        Coef(Int2Val(-1), Int2Val(4), Q(6, 10))>>),
            SubResult(<<Coef(Int2Val(1), Int2Val(2), Q(7, 10)),
                        Coef(Int2Val(3), NaN, NaN)>>)>>,
          <<SubResult(<<Coef(Int2Val(0), Int2Val(5), Q(8, 10)),
                        Coef(Int2Val(0), Int2Val(4), NaN)>>),
            SubResult(<<Coef(Int2Val(2), Int2Val(1), Q(3, 10)),
                        Coef(Int2Val(1), Int2Val(1), Q(9, 10))>>)>>>>]

\* One sub-run under two conditions: a model without mean_nonzero whose
\* params table came with a final_parameter column, and a spike-and-slab one.
MultiC ==
    [parameters |->
        <<ParamRow(<<PyInt(1), PyInt(1)>>, <<PyInt(1), PyInt(0)>>)>>,
     results |->
        <<<<SubResult(<<CoefPlain(Int2Val(2), Int2Val(2)),
                        CoefPlain(Int2Val(1), Int2Val(0))>>)>>,
          <<SubResult(<<Coef(Int2Val(1), Int2Val(3), Q(7, 10)),
                        Coef(Int2Val(1), Int2Val(2), Q(1, 2))>>)>>>>]

\* The same directory holding multi-model runs.
DiskMulti ==
    (<<"r", "_", "a">> :> MultiA) @@
    (<<"a", "r", "_">> :> MultiB) @@
    (<<"r", "_", "b">> :> MultiC) @@
    (<<"r", "_", "c">> :> Corrupt) @@
    (<<"r", "a", "_">> :> MultiB) @@
    (<<"_", "r">> :> Corrupt)

\* line 383: renamed_load(open(path + "/" + f, "rb")) on a file that unpickles
load_multi(f) ==
    [src |-> f, parameters |-> DiskMulti[f].parameters,
     results |-> DiskMulti[f].results, attr_raw |-> "unset"]

RECURSIVE nested_items_from(_, _)
\* lines 387-388: the <<condition, sub-run>> pairs in the order the nested
\* loops visit them, from condition c on
nested_items_from(run, c) ==
    IF c > Len(run.results) THEN <<>>
    ELSE [s \in DOMAIN run.results[c] |-> <<c, s>>]
         \o nested_items_from(run, c + 1)

nested_items(run) == nested_items_from(run, 1)

\* line 390: "mean_nonzero" in r2_i.params.columns
has_mean_nonzero(sub) ==
    \A j \in DOMAIN sub.params : sub.params[j].mean_nonzero # Absent

\* C11 mutant: the column test is dropped and a missing mean_nonzero is
\* taken for an undefined one, so that final_parameter becomes the mean.
finalize_multi_mut(sub, threshold) ==
    IF has_mean_nonzero(sub) THEN finalize(sub, threshold)
    ELSE [sub EXCEPT !.params =
            [j \in DOMAIN sub.params |->
                [sub.params[j] EXCEPT !.final_parameter = sub.params[j].mean]]]

\* lines 390-395, one pass of the inner loop: a sub-result with the
\* mean_nonzero column gets final_parameter, any other is left as it is.
finalize_multi(sub, threshold) ==
    IF has_mean_nonzero(sub) THEN finalize(sub, threshold) ELSE sub

\* Whether a params table has the final_parameter column.
has_final_parameter(sub) ==
    \A j \in DOMAIN sub.params : sub.params[j].final_parameter # Absent

\* The multi-model run's get_discovery_rates() is the sampler's: the counts
\* of a parameter row are taken over the sub-run's sub-results, under every
\* condition, that have a final_parameter column.
discovery_counts_multi(run, n) ==
    LET C == {c \in DOMAIN run.results : has_final_parameter(run.results[c][n])}
        hit(c, j, d, t) ==
            /\ Discovered(run.results[c][n].params[j]) = d
            /\ TrueEffect(run.parameters[n].w_true[j]) = t
        cnt(d, t) ==
            CountOf({cj \in C \X DOMAIN run.parameters[n].w_true :
                        hit(cj[1], cj[2], d, t)})
    IN  [col \in {"tp", "tn", "fp", "fn"} |->
           CASE col = "tp" -> cnt(TRUE, TRUE)
             [] col = "fp" -> cnt(TRUE, FALSE)
             [] col = "tn" -> cnt(FALSE, FALSE)
             [] col = "fn" -> cnt(FALSE, TRUE)]

\* line 397: the parameters table with the discovery-rate columns
get_discovery_rates_multi(run) ==
    [run EXCEPT !.parameters =
        [n \in DOMAIN run.parameters |->
            [run.parameters[n] EXCEPT !.counts = discovery_counts_multi(run, n)]]]

InitMulti ==
    /\ entry = "multi_model"
    /\ file_identifier \in Identifiers
    /\ custom_threshold \in Thresholds
    /\ keep_results \in BOOLEAN
    /\ files \in Listings
    /\ i = 0
    /\ pc = "loop"
    /\ r = [src |-> <<>>]
    /\ k = 0
    /\ results = <<>>
    /\ all_study_params = <<>>
    /\ all_study_params_agg = {}
    /\ ret = [st |-> "none"]
    /\ opened = <<>>
    /\ agg_df = [st |-> "idle"]
    /\ module = Idle
    /\ name = Idle
    /\ resolved = <<>>

\* lines 377-383: the next entry contains the identifier and unpickles
LoadFileMulti ==
    /\ pc = "loop" /\ i < Len(files)
    /\ name_contains(file_identifier, files[i + 1])
    /\ ~load_fails(files[i + 1])
    /\ i' = i + 1
    /\ opened' = Append(opened, files[i + 1])
    /\ r' = load_multi(files[i + 1])
    /\ k' = 0
    /\ pc' = "finalize"
    /\ UNCHANGED <<args, results, all_study_params, all_study_params_agg,
                   ret, others>>

\* lines 387-395: one pass of the inner loop; k counts the passes made
FinalizeSubResultMulti ==
    /\ pc = "finalize" /\ k < Len(nested_items(r))
    /\ LET c == nested_items(r)[k + 1][1]
           s == nested_items(r)[k + 1][2]
       IN  r' = [r EXCEPT !.results[c][s] =
                     finalize_multi(r.results[c][s], custom_threshold)]
    /\ k' = k + 1
    /\ UNCHANGED <<args, i, pc, results, all_study_params,
                   all_study_params_agg, ret, opened, others>>

\* line 397: the nested loops are over
DiscoveryRatesMulti ==
    /\ pc = "finalize" /\ k = Len(nested_items(r))
    /\ r' = get_discovery_rates_multi(r)
    /\ pc' = "append"
    /\ UNCHANGED <<args, i, k, results, all_study_params,
                   all_study_params_agg, ret, opened, others>>

\* Lines 377-381, 399-414 are those of the single-model function.
NextMulti ==
    \/ SkipFile \/ LoadFileMulti \/ LoadFileFails
    \/ FinalizeSubResultMulti \/ DiscoveryRatesMulti
    \/ AppendKept \/ AppendDiscarded
    \/ ConcatFails \/ Concat \/ Stringify \/ GroupBy \/ Return

SpecMulti == InitMulti /\ [][NextMulti]_vars

\* The <<condition, sub-run>> positions of a multi-model run.
PositionsOf(run) ==
    UNION {{<<c, n>> : n \in DOMAIN run.results[c]} : c \in DOMAIN run.results}

\* The multi-model runs whose discovery-rate method is about to be invoked
\* or has been invoked.
RunsPastFinalizing ==
    {results[n] : n \in DOMAIN results}
    \cup (IF pc = "append" \/ (pc = "finalize" /\ ENABLED DiscoveryRatesMulti)
          THEN {r} ELSE {})

\* The three-case rule of C2 on one coefficient row.
ThreeCaseRule(c, threshold) ==
    /\ ~Defined(c.mean_nonzero) => c.final_parameter = c.mean
    /\ (Defined(c.mean_nonzero) /\ StrictlyAbove(c.inclusion_prob, threshold))
           => c.final_parameter = c.mean_nonzero
    /\ (Defined(c.mean_nonzero) /\ ~StrictlyAbove(c.inclusion_prob, threshold))
           => c.final_parameter = Int2Val(0)

\* C11: in the multi-model variant every sub-result under every condition of
\* a run has a final_parameter column, computed by the three-case rule,
\* before the run's discovery-rate method is invoked.
C11_EverySubResultFinalized ==
    \A run \in RunsPastFinalizing :
        \A p \in PositionsOf(run) :
            LET sub == run.results[p[1]][p[2]]
            IN  \A j \in DOMAIN sub.params :
                    /\ sub.params[j].final_parameter # Absent
                    /\ sub.params[j].mean_nonzero # Absent
                           => ThreeCaseRule(sub.params[j], custom_threshold)

\* C11 as amended: every sub-result whose params table has a mean_nonzero
\* column has final_parameter by the three-case rule before the run's
\* discovery-rate method is invoked; a sub-result without that column is left
\* as it was loaded, with no final_parameter unless it came with one.
C11_SparseSubResultsFinalized ==
    \A run \in RunsPastFinalizing :
        \A p \in PositionsOf(run) :
            LET sub == run.results[p[1]][p[2]]
                loaded == DiskMulti[run.src].results[p[1]][p[2]]
            IN  IF \E j \in DOMAIN loaded.params :
                       loaded.params[j].mean_nonzero # Absent
                THEN \A j \in DOMAIN sub.params :
                         /\ sub.params[j].final_parameter # Absent
                         /\ ThreeCaseRule(sub.params[j], custom_threshold)
                         /\ sub.params[j].mean = loaded.params[j].mean
                         /\ sub.params[j].mean_nonzero = loaded.params[j].mean_nonzero
                         /\ sub.params[j].inclusion_prob = loaded.params[j].inclusion_prob
                ELSE sub = loaded

\* C11 witness: the discovery rates of a run were computed while one of its
\* sub-results had been finalized by the rule and another, with no
\* mean_nonzero column, still had no final_parameter.
C11_Witness ==
    /\ pc = "append"
    /\ \E p \in PositionsOf(r) :
           \A j \in DOMAIN r.results[p[1]][p[2]].params :
               /\ r.results[p[1]][p[2]].params[j].mean_nonzero # Absent
               /\ r.results[p[1]][p[2]].params[j].final_parameter # Absent
    /\ \E p \in PositionsOf(r) :
           \A j \in DOMAIN r.results[p[1]][p[2]].params :
               /\ r.results[p[1]][p[2]].params[j].mean_nonzero = Absent
               /\ r.results[p[1]][p[2]].params[j].final_parameter = Absent

(***************************************************************************)
(* The order of the steps of the single-model prepare functions.           *)
(***************************************************************************)
\* Every coefficient row of the sub-result has final_parameter.
IsFinalized(sub) ==
    \A j \in DOMAIN sub.params : sub.params[j].final_parameter # Absent

\* No coefficient row of the sub-result has final_parameter.
IsUnfinalized(sub) ==
    \A j \in DOMAIN sub.params : sub.params[j].final_parameter = Absent

\* The run's discovery-rate method has added its columns to every row of the
\* parameters table / to none.
HasRates(run) == \A n \in DOMAIN run.parameters : run.parameters[n].counts # <<>>
HasNoRates(run) == \A n \in DOMAIN run.parameters : run.parameters[n].counts = <<>>

\* The files the runs of `results` were loaded from, in order.
SourcesOf(rs) == [n \in DOMAIN rs |-> rs[n].src]

\* C12: for each matching file the steps come in a fixed order: load, then
\* final_parameter on every sub-result, then the discovery-rate method
\* exactly once, then the append to results; the discovery-rate method is
\* never invoked on a run that still has a sub-result without
\* final_parameter; and the parameter tables are concatenated and aggregated
\* only after every file has been processed.
C12_FixedOrderPerFile ==
    \* loaded, being finalized: no rates yet, not yet in results
    /\ pc = "finalize" =>
           /\ r.src = files[i] /\ opened = Append(SourcesOf(results), r.src)
           /\ HasNoRates(r)
           /\ \A m \in DOMAIN r.mcmc_results :
                  IF m <= k THEN IsFinalized(r.mcmc_results[m])
                  ELSE IsUnfinalized(r.mcmc_results[m])
    \* the discovery-rate method is invoked on a finalized run without rates
    /\ ENABLED DiscoveryRates =>
           /\ HasNoRates(r)
           /\ \A sub \in SubResultsOf(r) : IsFinalized(sub)
    /\ (pc = "finalize" /\ \E sub \in SubResultsOf(r) : ~IsFinalized(sub))
           => ~ENABLED DiscoveryRates /\ ENABLED FinalizeSubResult
    \* rates computed, about to be appended: it was invoked, and cannot be again
    /\ pc = "append" =>
           /\ r.src = files[i] /\ opened = Append(SourcesOf(results), r.src)
           /\ HasRates(r)
           /\ \A sub \in SubResultsOf(r) : IsFinalized(sub)
           /\ ~ENABLED DiscoveryRates /\ ~ENABLED FinalizeSubResult
    \* between two files every opened file has been appended
    /\ pc = "loop" => opened = SourcesOf(results)
    \* every collected run went through both steps
    /\ \A n \in DOMAIN results :
           /\ HasRates(results[n])
           /\ \A sub \in SubResultsOf(results[n]) : IsFinalized(sub)
    \* the tables exist only once every file has been processed
    /\ (all_study_params # <<>> \/ all_study_params_agg # {}
          \/ pc \in {"astype", "groupby", "return", "returned"}) =>
           /\ i = Len(files)
           /\ SourcesOf(results) = Matching(files)
           /\ Len(all_study_params) = Len(concat(results))
    /\ (ENABLED Concat \/ ENABLED ConcatFails) =>
           (i = Len(files) /\ opened = SourcesOf(results))

\* C12 witness: a call returned the tables of two runs, each loaded,
\* finalized, given its rates and appended in turn.
C12_Witness ==
    /\ Returned
    /\ Len(ret.results) = 2
    /\ Len(files) = 3
    /\ \A n \in DOMAIN ret.results :
           /\ HasRates(ret.results[n])
           /\ \A sub \in SubResultsOf(ret.results[n]) : IsFinalized(sub)
    /\ ret.all_study_params_agg # {}

====
